---------------------------- MODULE Spec2Model ----------------------------
(***************************************************************************)
(* A model of one planning run of the aircraft maintenance optimizer       *)
(* (src/src/optimizer.py): load_data, generate_schedule (model building,   *)
(* CP-SAT solve, part allocation, row emission) and save_schedule_to_db.   *)
(*                                                                         *)
(* Aircraft are identified by their position in the fleet table, parts by  *)
(* their position in the inventory table.  Days are counted from the date  *)
(* on which the run starts (day 0).                                        *)
(***************************************************************************)
EXTENDS Integers, Sequences, FiniteSets, TLC

(***************************************************************************)
(* Bounds of the model.                                                    *)
(***************************************************************************)
MaxAircraft == 3
MaxHorizon  == 2
MaxDuration == 3
MaxCrew     == 2
MaxParts    == 2
MaxStock    == 4
MaxFlightHours == 5
MaxInterval == 3
MaxNights   == 1

(***************************************************************************)
(* hours_until_due values the fleets are drawn from: Scenario A's 10, 50   *)
(* and 500, the value 0, and 7 and 21, which give scaled urgencies that    *)
(* are not whole numbers (21 against 7) or that the floating-point         *)
(* evaluation falls short of (50 against 21).                              *)
(***************************************************************************)
HoursValues == {0, 7, 10, 21, 50, 500}

VARIABLES
    cfg,                    \* the planning parameters (optimizer.py:9-12)
    fleet_df,               \* fleet table: hours_until_due per aircraft
    parts_df,               \* parts_inventory table
    maintenance_records,    \* the stored maintenance_records table
    pc,                     \* position of the run
    error,                  \* the exception that ended the run, or "none"
    max_hours,              \* the weight normaliser
    weights,                \* objective weight per aircraft
    status,                 \* what solver.Solve returned
    start_day,              \* solver.Value(start_day[aid])
    duration,               \* solver.Value(duration[aid])
    is_scheduled_on_day,    \* solver value of is_scheduled_on_day[(aid, d)]
    parts_copy,             \* working copy of the inventory
    part_idx,               \* round-robin cursor (0-based, as in the code)
    total_parts_available,  \* running sum of the working copy's stock
    i,                      \* the aircraft the allocation loop is at
    schedule_rows,          \* rows appended so far / the returned schedule
    clock,                  \* today's date as the system clock reports it
    nights,                 \* midnights that may still pass during the run
    generated_fleet         \* the table generate_fleet returned, if it ran

vars == <<cfg, fleet_df, parts_df, maintenance_records, pc, error, max_hours,
          weights, status, start_day, duration, is_scheduled_on_day,
          parts_copy, part_idx, total_parts_available, i, schedule_rows,
          clock, nights, generated_fleet>>

None == 0

\* The planning parameters as the source sets them.  The specifications
\* below run under horizons of at most MaxHorizon days instead of 30.
PLANNING_HORIZON_DAYS == 30
MAINT_DURATION_MIN == 1
MAINT_DURATION_MAX == 2
CREW_AVAILABLE == 2

Max(a, b) == IF a >= b THEN a ELSE b
Min(a, b) == IF a <= b THEN a ELSE b

RECURSIVE SeqSum(_)
SeqSum(s) == IF s = <<>> THEN 0 ELSE Head(s) + SeqSum(Tail(s))

RECURSIVE SeqMax(_)
SeqMax(s) == IF Len(s) = 1 THEN s[1] ELSE Max(Head(s), SeqMax(Tail(s)))

SeqsUpTo(S, n) == UNION {[1..k -> S] : k \in 0..n}

AircraftList == 1..Len(fleet_df)
Days == 0..(cfg.horizon - 1)

(***************************************************************************)
(* The objective weights.                                                  *)
(***************************************************************************)

\* max_hours = int(fleet_df["hours_until_due"].max()) if len(fleet_df) else 1
MaxHours(fleet) == IF Len(fleet) > 0 THEN SeqMax(fleet) ELSE 1

\* The whole numbers k in 0..100 for which the double (k / 100) * 100 is
\* smaller than k, so that int() truncates it to k - 1.
FloatShort == {29, 57, 58}

\* int(((max_hours - urgency) / max_hours) * 100): a double division, a double
\* multiplication and a truncation.  The double result is exact up to one
\* unit in the last place, so the truncation is the floor of the exact
\* quotient unless the exact quotient is a whole number the double product
\* falls short of.
ScaledUrgency(urgency, maxh) ==
    LET x == 100 * (maxh - urgency)
        q == x \div maxh
    IN  IF x % maxh = 0 /\ q \in FloatShort THEN q - 1 ELSE q

\* The scaled urgency rounded to the nearest whole number instead.
ScaledUrgencyRounded(urgency, maxh) ==
    (2 * 100 * (maxh - urgency) + maxh) \div (2 * maxh)

\* The weight with the scaled urgency rounded to the nearest whole number.
WeightRounded(urgency, maxh) == Max(1, ScaledUrgencyRounded(urgency, maxh))

\* The weight growing with hours_until_due instead of falling with it.
WeightInverted(urgency, maxh) ==
    Max(1, ScaledUrgency(maxh - urgency, maxh))

Weight(urgency, maxh) == Max(1, ScaledUrgency(urgency, maxh))

(***************************************************************************)
(* The CP-SAT model: the values the constraints of lines 53-79 allow.      *)
(***************************************************************************)

\* before = start_day <= d (lines 65-66)
BeforeVals(s, d) ==
    {b \in BOOLEAN : (b => s <= d) /\ (~b => s > d)}

\* after = start_day + duration > d (lines 69-70)
AfterVals(s, du, d) ==
    {x \in BOOLEAN : (x => s + du > d) /\ (~x => s + du <= d)}

\* Only one direction of the link between the day flag and before/after.
OnValsOneWay(s, du, d) ==
    {o \in BOOLEAN : \E b \in BeforeVals(s, d), x \in AfterVals(s, du, d) :
                        o => (b /\ x)}

\* is_scheduled_on_day = before AND after, reified both ways (lines 73-74)
OnVals(s, du, d) ==
    {o \in BOOLEAN : \E b \in BeforeVals(s, d), x \in AfterVals(s, du, d) :
                        /\ o => (b /\ x)
                        /\ ~o => (~b \/ ~x)}

\* The rows of day flags, one flag per aircraft 1..n, with the flag of aircraft
\* a drawn from allowed[a].
RECURSIVE FlagRows(_, _)
FlagRows(allowed, n) ==
    IF n = 0 THEN {<<>>}
    ELSE {Append(p, o) : p \in FlagRows(allowed, n - 1), o \in allowed[n]}

\* The day flags of day d that the reified constraints and the capacity
\* constraint of line 79 allow under the assignment (st, du).
DayRows(st, du, d) ==
    LET allowed == [a \in AircraftList |-> OnVals(st[a], du[a], d)]
    IN  {r \in FlagRows(allowed, Len(fleet_df)) :
            Cardinality({a \in AircraftList : r[a]}) <= cfg.crew}

\* One row of day flags per day 0 .. n-1, as a sequence.
RECURSIVE DayRowSeqs(_, _, _)
DayRowSeqs(st, du, n) ==
    IF n = 0 THEN {<<>>}
    ELSE {Append(p, r) : p \in DayRowSeqs(st, du, n - 1),
                         r \in DayRows(st, du, n - 1)}

\* A start day may be the day after the last day of the horizon.
StartDaysThroughHorizon == 0..cfg.horizon

\* start_day = model.NewIntVar(0, horizon - 1, ...) (line 53)
StartDays == 0..(cfg.horizon - 1)

\* Every assignment of the model's variables that satisfies its constraints.
Feasible ==
    UNION {
      {[start |-> st, dur |-> du,
        on |-> [a \in AircraftList |-> [d \in Days |-> rows[d + 1][a]]]] :
          rows \in DayRowSeqs(st, du, cfg.horizon)} :
        st \in [AircraftList -> StartDays],
        du \in [AircraftList -> cfg.dmin..cfg.dmax]}

RECURSIVE WeightedStarts(_, _)
WeightedStarts(st, n) ==
    IF n = 0 THEN 0 ELSE st[n] * weights[n] + WeightedStarts(st, n - 1)

RECURSIVE PlainStarts(_, _)
PlainStarts(st, n) == IF n = 0 THEN 0 ELSE st[n] + PlainStarts(st, n - 1)

\* The sum of the start days without the weights.
ObjectiveUnweighted(sol) == PlainStarts(sol.start, Len(fleet_df))

\* sum(start_day[aid] * weights[aid] for aid in aircraft_list) (line 94)
Objective(sol) == WeightedStarts(sol.start, Len(fleet_df))

Optimal(feasible) ==
    LET costs == {Objective(s) : s \in feasible}
        best  == CHOOSE c \in costs : \A c2 \in costs : c <= c2
    IN  {s \in feasible : Objective(s) = best}

\* status not in (cp_model.OPTIMAL, cp_model.FEASIBLE) is an error (line 102)
StatusOKOptimalOnly(st) == st = "OPTIMAL"

StatusOK(st) == st \in {"OPTIMAL", "FEASIBLE"}

(***************************************************************************)
(* The initial state: the tables are loaded, generate_schedule is about to *)
(* be called.                                                              *)
(***************************************************************************)
Configs(horizons, dmins, dmaxs, crews) ==
    [horizon : horizons, dmin : dmins, dmax : dmaxs, crew : crews]

Parts(stocks, costs) ==
    [part_id : 1..MaxParts, quantity_on_hand : stocks, unit_cost : costs]

\* Inventories of at most n parts; the part in position k has part_id k.
Inventories(n, stocks, costs) ==
    {inv \in SeqsUpTo(Parts(stocks, costs), n) :
        \A k \in 1..Len(inv) : inv[k].part_id = k}

\* What an earlier run left in maintenance_records.
StoredBefore ==
    <<[aircraft_id |-> 1, schedule_start |-> 0, schedule_end |-> 1,
       part_id |-> None, part_quantity |-> 0, cost |-> 0,
       status |-> "SCHEDULED"]>>

InitWith(configs, fleets, inventories, ns) ==
    /\ cfg \in configs
    /\ fleet_df \in fleets
    /\ parts_df \in inventories
    /\ nights \in ns
    /\ maintenance_records = StoredBefore
    /\ pc = "loaded"
    /\ error = "none"
    /\ max_hours = 0
    /\ weights = <<>>
    /\ status = "none"
    /\ start_day = <<>>
    /\ duration = <<>>
    /\ is_scheduled_on_day = <<>>
    /\ parts_copy = <<>>
    /\ part_idx = 0
    /\ total_parts_available = 0
    /\ i = 0
    /\ schedule_rows = <<>>
    /\ clock = 0
    /\ generated_fleet = <<>>

(***************************************************************************)
(* data_sim.py, generate_fleet: the simulated fleet table, and its way     *)
(* through fleet.csv and the fleet table into load_data's fleet_df.        *)
(***************************************************************************)

\* df["hours_until_due"] one hour short of the interval's remainder.
HoursUntilDueOneLess(interval, since) == interval - since - 1

\* df["flight_hours"] % df["maint_interval_hours"] (data_sim.py line 47)
HoursSinceLastMaintenance(flight, interval) == flight % interval

\* df["maint_interval_hours"] - df["hours_since_last_maintenance"] (line 48)
HoursUntilDue(interval, since) == interval - since

\* One row of the table of lines 40-48.
FleetRow(aid, flight, interval) ==
    [aircraft_id                  |-> aid,
     flight_hours                 |-> flight,
     maint_interval_hours         |-> interval,
     hours_since_last_maintenance |->
         HoursSinceLastMaintenance(flight, interval),
     hours_until_due              |->
         HoursUntilDue(interval, HoursSinceLastMaintenance(flight, interval))]

\* The run starts before any table exists.
InitGenerate ==
    /\ pc = "generating"
    /\ generated_fleet = <<>>
    /\ cfg = [horizon |-> PLANNING_HORIZON_DAYS, dmin |-> MAINT_DURATION_MIN,
              dmax |-> MAINT_DURATION_MAX, crew |-> CREW_AVAILABLE]
    /\ fleet_df = <<>>
    /\ parts_df = <<>>
    /\ nights = 0
    /\ maintenance_records = StoredBefore
    /\ error = "none"
    /\ max_hours = 0
    /\ weights = <<>>
    /\ status = "none"
    /\ start_day = <<>>
    /\ duration = <<>>
    /\ is_scheduled_on_day = <<>>
    /\ parts_copy = <<>>
    /\ part_idx = 0
    /\ total_parts_available = 0
    /\ i = 0
    /\ schedule_rows = <<>>
    /\ clock = 0

\* generate_fleet(num_aircraft): the random flight hours and intervals of
\* lines 33-34 and the derived columns of lines 47-48.
generate_fleet ==
    /\ pc = "generating"
    /\ \E num_aircraft \in 0..MaxAircraft :
       \E flight_hours \in [1..num_aircraft -> 0..MaxFlightHours],
          maint_interval_hours \in [1..num_aircraft -> 1..MaxInterval] :
          generated_fleet' =
              [k \in 1..num_aircraft |->
                  FleetRow(k, flight_hours[k], maint_interval_hours[k])]
    /\ pc' = "generated"
    /\ UNCHANGED <<cfg, fleet_df, parts_df, maintenance_records, error,
                   max_hours, weights, status, start_day, duration,
                   is_scheduled_on_day, parts_copy, part_idx,
                   total_parts_available, i, schedule_rows, clock, nights>>

\* fleet.csv is ingested into the fleet table (ingest.py line 37) and read
\* back by load_data (optimizer.py line 23).
load_generated_fleet ==
    /\ pc = "generated"
    /\ fleet_df' = [k \in 1..Len(generated_fleet) |->
                       generated_fleet[k].hours_until_due]
    /\ pc' = "loaded"
    /\ UNCHANGED <<generated_fleet, cfg, parts_df, maintenance_records, error,
                   max_hours, weights, status, start_day, duration,
                   is_scheduled_on_day, parts_copy, part_idx,
                   total_parts_available, i, schedule_rows, clock, nights>>

(***************************************************************************)
(* generate_schedule, lines 42-94: the model and the weights.              *)
(***************************************************************************)
Build ==
    /\ pc = "loaded"
    /\ ~(Len(fleet_df) > 0 /\ MaxHours(fleet_df) = 0)
    /\ max_hours' = MaxHours(fleet_df)
    /\ weights' = [a \in AircraftList |->
                      Weight(fleet_df[a], MaxHours(fleet_df))]
    /\ pc' = "built"
    /\ UNCHANGED <<generated_fleet, cfg, fleet_df, parts_df, maintenance_records, error,
                   status, start_day, duration, is_scheduled_on_day,
                   parts_copy, part_idx, total_parts_available, i,
                   schedule_rows, clock, nights>>

\* (max_hours - urgency) / max_hours with max_hours = 0 raises (line 90)
BuildDivisionByZero ==
    /\ pc = "loaded"
    /\ Len(fleet_df) > 0 /\ MaxHours(fleet_df) = 0
    /\ max_hours' = MaxHours(fleet_df)
    /\ pc' = "failed"
    /\ error' = "ZeroDivisionError"
    /\ UNCHANGED <<generated_fleet, cfg, fleet_df, parts_df, maintenance_records, weights,
                   status, start_day, duration, is_scheduled_on_day,
                   parts_copy, part_idx, total_parts_available, i,
                   schedule_rows, clock, nights>>

(***************************************************************************)
(* generate_schedule, lines 96-103: the solve step.                        *)
(***************************************************************************)

\* The solver returns a solution: the best one (OPTIMAL), or the best it
\* found before max_time_in_seconds ran out (FEASIBLE).
SolveFound ==
    /\ pc = "built"
    /\ \E feasible \in {Feasible} :
       \E optimal \in {Optimal(feasible)} :
       \E sol \in feasible, st \in {"OPTIMAL", "FEASIBLE"} :
          /\ st = "OPTIMAL" => sol \in optimal
          /\ status' = st
          /\ start_day' = sol.start
          /\ duration' = sol.dur
          /\ is_scheduled_on_day' = sol.on
          /\ IF StatusOK(st)
             THEN pc' = "solved" /\ error' = error
             ELSE pc' = "failed" /\ error' = "RuntimeError"
    /\ UNCHANGED <<generated_fleet, cfg, fleet_df, parts_df, maintenance_records, max_hours,
                   weights, parts_copy, part_idx, total_parts_available, i,
                   schedule_rows, clock, nights>>

\* The model has no solution (an empty variable domain makes it invalid).
SolveInfeasible ==
    /\ pc = "built"
    /\ Feasible = {}
    /\ status' \in IF cfg.dmin > cfg.dmax \/ cfg.horizon < 1
                   THEN {"MODEL_INVALID", "INFEASIBLE"}
                   ELSE {"INFEASIBLE"}
    /\ IF StatusOK(status')
       THEN pc' = "solved" /\ error' = error
       ELSE pc' = "failed" /\ error' = "RuntimeError"
    /\ UNCHANGED <<generated_fleet, cfg, fleet_df, parts_df, maintenance_records, max_hours,
                   weights, start_day, duration, is_scheduled_on_day,
                   parts_copy, part_idx, total_parts_available, i,
                   schedule_rows, clock, nights>>

\* max_time_in_seconds (line 98) ran out before any solution was found.
SolveTimeout ==
    /\ pc = "built"
    /\ Feasible # {}
    /\ status' = "UNKNOWN"
    /\ IF StatusOK(status')
       THEN pc' = "solved" /\ error' = error
       ELSE pc' = "failed" /\ error' = "RuntimeError"
    /\ UNCHANGED <<generated_fleet, cfg, fleet_df, parts_df, maintenance_records, max_hours,
                   weights, start_day, duration, is_scheduled_on_day,
                   parts_copy, part_idx, total_parts_available, i,
                   schedule_rows, clock, nights>>

(***************************************************************************)
(* generate_schedule, lines 105-158: part allocation and row emission.     *)
(***************************************************************************)

\* sort_values("quantity_on_hand", ascending=False): the orderings of the
\* inventory by stock, largest first (the order among equal stocks is the
\* sort's).
SortedByStock(inv) ==
    {s \in [1..Len(inv) -> {inv[k] : k \in 1..Len(inv)}] :
        /\ \A k \in 1..Len(inv) : \E j \in 1..Len(inv) : s[j] = inv[k]
        /\ \A j, k \in 1..Len(inv) :
              j < k => s[j].quantity_on_hand >= s[k].quantity_on_hand}

Stocks(inv) == [k \in 1..Len(inv) |-> inv[k].quantity_on_hand]

\* Lines 106-112: the working copy, the cursor and the total stock.
PrepareAllocation ==
    /\ pc = "solved"
    /\ parts_copy' \in SortedByStock(parts_df)
    /\ part_idx' = 0
    /\ total_parts_available' =
          (IF Len(parts_df) > 0 THEN SeqSum(Stocks(parts_df)) ELSE 0)
    /\ schedule_rows' = <<>>
    /\ i' = 1
    /\ pc' = "allocating"
    /\ UNCHANGED <<generated_fleet, cfg, fleet_df, parts_df, maintenance_records, error,
                   max_hours, weights, status, start_day, duration,
                   is_scheduled_on_day, clock, nights>>

\* A scan that gives up after one probe instead of len(parts_copy) probes.
RECURSIVE ProbeOnce(_, _, _)
ProbeOnce(copy, idx, attempts) ==
    IF attempts >= 1
    THEN [found |-> FALSE, at |-> idx]
    ELSE LET j == IF idx >= Len(copy) THEN 0 ELSE idx
         IN  IF copy[j + 1].quantity_on_hand > 0
             THEN [found |-> TRUE, at |-> j]
             ELSE ProbeOnce(copy, (j + 1) % Len(copy), attempts + 1)

\* The while loop of lines 127-147 up to the allocation: the position of the
\* first stocked part from the cursor on, or the cursor after len(parts_copy)
\* failed probes.
RECURSIVE Probe(_, _, _)
Probe(copy, idx, attempts) ==
    IF attempts >= Len(copy)
    THEN [found |-> FALSE, at |-> idx]
    ELSE LET j == IF idx >= Len(copy) THEN 0 ELSE idx
         IN  IF copy[j + 1].quantity_on_hand > 0
             THEN [found |-> TRUE, at |-> j]
             ELSE Probe(copy, (j + 1) % Len(copy), attempts + 1)

\* random.randint(1, min(3, avail)) with no upper limit from the stock.
DrawsUnlimited(avail) == 1..3

\* random.randint(1, min(3, avail)) (line 136)
Draws(avail) == 1..Min(3, avail)

\* The row of lines 150-158; t1 and t2 are the dates of the two clock reads.
Row(aid, t1, t2, pid, qty, cost) ==
    [aircraft_id    |-> aid,
     schedule_start |-> t1 + start_day[aid],
     schedule_end   |-> t2 + start_day[aid] + duration[aid],
     part_id        |-> pid,
     part_quantity  |-> qty,
     cost           |-> cost,
     status         |-> "SCHEDULED"]

\* The dates two successive clock reads can return.
ClockReads == {t \in [first : clock..(clock + nights),
                      second : clock..(clock + nights)] :
                  t.first <= t.second}

\* One iteration of the loop of lines 114-158 in which a part is allocated.
AllocatePart ==
    /\ pc = "allocating"
    /\ i <= Len(fleet_df)
    /\ total_parts_available > 0 /\ Len(parts_copy) > 0
    /\ LET p == Probe(parts_copy, part_idx, 0)
           prow == parts_copy[p.at + 1]
           avail == prow.quantity_on_hand
       IN  /\ p.found
           /\ \E part_quantity \in Draws(avail), t \in ClockReads :
                /\ parts_copy' = [parts_copy EXCEPT
                      ![p.at + 1].quantity_on_hand = avail - part_quantity]
                /\ total_parts_available' =
                      total_parts_available - part_quantity
                /\ part_idx' = (p.at + 1) % Len(parts_copy)
                /\ schedule_rows' = Append(schedule_rows,
                      Row(i, t.first, t.second, prow.part_id, part_quantity,
                          prow.unit_cost * part_quantity))
                /\ nights' = nights - (t.second - clock)
                /\ clock' = t.second
    /\ i' = i + 1
    /\ UNCHANGED <<generated_fleet, cfg, fleet_df, parts_df, maintenance_records, pc, error,
                   max_hours, weights, status, start_day, duration,
                   is_scheduled_on_day>>

\* One iteration of the loop in which the defaults of lines 119-121 remain.
LeaveUnresourced ==
    /\ pc = "allocating"
    /\ i <= Len(fleet_df)
    /\ LET scanned == total_parts_available > 0 /\ Len(parts_copy) > 0
           p == IF scanned THEN Probe(parts_copy, part_idx, 0)
                ELSE [found |-> FALSE, at |-> part_idx]
       IN  /\ ~p.found
           /\ part_idx' = p.at
           /\ \E t \in ClockReads :
                /\ schedule_rows' = Append(schedule_rows,
                      Row(i, t.first, t.second, None, 0, 0))
                /\ nights' = nights - (t.second - clock)
                /\ clock' = t.second
    /\ i' = i + 1
    /\ UNCHANGED <<generated_fleet, cfg, fleet_df, parts_df, maintenance_records, pc, error,
                   max_hours, weights, status, start_day, duration,
                   is_scheduled_on_day, parts_copy, total_parts_available>>

\* Lines 160-161 and 178: the loop is over, the schedule is returned.
Emit ==
    /\ pc = "allocating"
    /\ i > Len(fleet_df)
    /\ pc' = "emitted"
    /\ UNCHANGED <<generated_fleet, cfg, fleet_df, parts_df, maintenance_records, error,
                   max_hours, weights, status, start_day, duration,
                   is_scheduled_on_day, parts_copy, part_idx,
                   total_parts_available, i, schedule_rows, clock, nights>>

(***************************************************************************)
(* save_schedule_to_db, called by __main__ after generate_schedule.        *)
(***************************************************************************)

\* The rows written to the table from inside the allocation loop.
SaveDuringAllocation ==
    /\ pc = "allocating"
    /\ maintenance_records # schedule_rows
    /\ maintenance_records' = schedule_rows
    /\ UNCHANGED <<generated_fleet, cfg, fleet_df, parts_df, pc, error, max_hours, weights,
                   status, start_day, duration, is_scheduled_on_day,
                   parts_copy, part_idx, total_parts_available, i,
                   schedule_rows, clock, nights>>

save_schedule_to_db ==
    /\ pc = "emitted"
    /\ maintenance_records' = schedule_rows
    /\ pc' = "saved"
    /\ UNCHANGED <<generated_fleet, cfg, fleet_df, parts_df, error, max_hours, weights, status,
                   start_day, duration, is_scheduled_on_day, parts_copy,
                   part_idx, total_parts_available, i, schedule_rows, clock,
                   nights>>

Next == Build \/ BuildDivisionByZero \/ SolveFound \/ SolveInfeasible
           \/ SolveTimeout \/ PrepareAllocation \/ AllocatePart
           \/ LeaveUnresourced \/ Emit \/ save_schedule_to_db


(***************************************************************************)
(* Specifications.  They share the program (Next) and differ in the inputs *)
(* the run is started on.  Every fleet set holds the fleet <<0>>, every    *)
(* configuration set one configuration that has no schedule.               *)
(***************************************************************************)
Fleets(hours) == SeqsUpTo(hours, MaxAircraft) \cup {<<0>>}

\* All small horizons, minimum durations and crews with the source's two
\* durations as the maximum; equal urgencies; at most one part.
Init ==
    InitWith(Configs(1..MaxHorizon, 1..MaxDuration,
                     {MAINT_DURATION_MIN, MAINT_DURATION_MAX}, 1..MaxCrew),
             Fleets({10}),
             Inventories(1, 0..1, {1}), {0})

Spec == Init /\ [][Next]_vars

\* All small inventories; one day on which the crew can take the whole fleet.
InitAlloc ==
    InitWith(Configs({1}, {1, 2}, {1}, {MaxAircraft}),
             Fleets({10}),
             Inventories(MaxParts, 0..MaxStock, {1, 2}), {0})

SpecAlloc == InitAlloc /\ [][Next]_vars

\* All small fleets over HoursValues; a horizon of one day.
InitWeights ==
    InitWith(Configs({1}, {MAINT_DURATION_MIN}, {1}, {MaxCrew}),
             Fleets(HoursValues),
             Inventories(1, {1}, {1}), {0})

SpecWeights == InitWeights /\ [][Next]_vars

\* The source's durations and crew under a short horizon; Scenario A's hours.
InitObjective ==
    InitWith(Configs(1..MaxHorizon, {MAINT_DURATION_MIN}, {MAINT_DURATION_MAX},
                     {CREW_AVAILABLE}),
             Fleets({10, 50, 500}),
             {<<[part_id |-> 1, quantity_on_hand |-> 1, unit_cost |-> 1]>>},
             {0})

SpecObjective == InitObjective /\ [][Next]_vars

\* Runs during which midnight may pass; the source's durations, two days,
\* a crew of one or of the whole fleet.
InitClock ==
    InitWith(Configs({2}, {MAINT_DURATION_MIN},
                     {MAINT_DURATION_MIN, MAINT_DURATION_MAX},
                     {1, MaxAircraft}),
             Fleets({10}),
             Inventories(1, 0..1, {1}), 0..MaxNights)

SpecClock == InitClock /\ [][Next]_vars

\* The generation of the fleet table alone.
NextGenerate == generate_fleet \/ load_generated_fleet

SpecGenerate == InitGenerate /\ [][NextGenerate]_vars

(***************************************************************************)
(* Properties.                                                             *)
(***************************************************************************)
Covers(a, d) == start_day[a] <= d /\ d < start_day[a] + duration[a]

InMaintenance(d) == {a \in AircraftList : Covers(a, d)}

HasSolution == pc \in {"solved", "allocating", "emitted", "saved"}

\* C1: in every schedule the solver's solution gives, on each day of the
\* horizon at most crew_capacity aircraft are covered by their start day and
\* duration, and the day flag of an aircraft is true exactly when its start
\* day and duration cover the day.
C1_CapacityPerDay ==
    HasSolution =>
        \A d \in Days :
            /\ Cardinality(InMaintenance(d)) <= cfg.crew
            /\ \A a \in AircraftList :
                  is_scheduled_on_day[a][d] <=> Covers(a, d)

\* C1 witness: a returned schedule of more aircraft than the crew can take
\* on one day, with a day on which the capacity is used up.
C1_Witness ==
    /\ pc = "emitted"
    /\ Len(fleet_df) > cfg.crew
    /\ \E d \in Days : Cardinality(InMaintenance(d)) = cfg.crew

InitialStock(p) == parts_df[p].quantity_on_hand

RECURSIVE Consumed(_, _)
Consumed(rows, p) ==
    IF rows = <<>> THEN 0
    ELSE (IF Head(rows).part_id = p THEN Head(rows).part_quantity ELSE 0)
         + Consumed(Tail(rows), p)

\* C2: during part allocation no part's stock in the working copy is ever
\* negative, and the quantities of the tasks assigned a part sum to at most
\* the part's initial stock.
C2_StockNeverNegative ==
    /\ \A k \in 1..Len(parts_copy) : parts_copy[k].quantity_on_hand >= 0
    /\ \A p \in 1..Len(parts_df) :
          Consumed(schedule_rows, p) <= InitialStock(p)

\* C2 witness: a part with more than three units in stock has been drawn
\* from until nothing is left of it.
C2_Witness ==
    /\ pc = "allocating"
    /\ \E k \in 1..Len(parts_copy) :
          /\ parts_copy[k].quantity_on_hand = 0
          /\ InitialStock(parts_copy[k].part_id) > 3
          /\ Consumed(schedule_rows, parts_copy[k].part_id)
                = InitialStock(parts_copy[k].part_id)

NoStockLeft == \A k \in 1..Len(parts_copy) : parts_copy[k].quantity_on_hand <= 0

Unresourced(row) == row.part_id = None

\* C3: the task of an aircraft is left without a part exactly when no part of
\* the working copy has stock at its turn; a task without a part has quantity
\* 0 and cost 0; with an empty inventory every task is without a part.
C3_UnresourcedIffNoStock ==
    /\ [][(pc = "allocating" /\ i' = i + 1) =>
            (Unresourced(schedule_rows'[i]) <=> NoStockLeft)]_vars
    /\ [](\A k \in 1..Len(schedule_rows) :
            /\ Unresourced(schedule_rows[k]) =>
                  schedule_rows[k].part_quantity = 0 /\ schedule_rows[k].cost = 0
            /\ Len(parts_df) = 0 => Unresourced(schedule_rows[k]))

\* C3 witness: with two parts in the inventory the first aircraft got a part,
\* the second one got the other part, and the third one found none left.
C3_Witness ==
    /\ pc = "emitted"
    /\ Len(parts_df) = 2
    /\ Len(schedule_rows) = 3
    /\ ~Unresourced(schedule_rows[1])
    /\ ~Unresourced(schedule_rows[2])
    /\ schedule_rows[1].part_id # schedule_rows[2].part_id
    /\ Unresourced(schedule_rows[3])

SolverInvoked == status # "none"

RunFailedAtSolve ==
    /\ pc = "failed"
    /\ error = "RuntimeError"
    /\ schedule_rows = <<>>

\* Some assignment of start days in 0..horizon-1 and durations in min..max
\* keeps every day of the horizon within the crew capacity.
Schedulable ==
    \E st \in [AircraftList -> 0..(cfg.horizon - 1)],
       du \in [AircraftList -> cfg.dmin..cfg.dmax] :
        \A d \in Days :
            Cardinality({a \in AircraftList :
                            st[a] <= d /\ d < st[a] + du[a]}) <= cfg.crew

\* C4 as stated: once the solver has been called, the run has failed with the
\* infeasibility error and no task if no assignment satisfies the capacity
\* constraint, and has not failed if one does.
C4_FailsIffInfeasible ==
    SolverInvoked =>
        IF Schedulable THEN pc # "failed" ELSE RunFailedAtSolve

\* C4 amended: once the solver has been called, the run has failed with the
\* error and no task if no assignment satisfies the capacity constraint (as
\* none does when there are more aircraft than crew x horizon); if one does,
\* the run has failed, in the same way, only when the solver's time ran out
\* before it found a solution (status UNKNOWN), and has a schedule otherwise.
C4_FailsIffNoSolutionFound ==
    /\ SolverInvoked =>
          IF Schedulable
          THEN IF status = "UNKNOWN" THEN RunFailedAtSolve ELSE HasSolution
          ELSE RunFailedAtSolve
    /\ (Len(fleet_df) > cfg.crew * cfg.horizon /\ SolverInvoked) =>
          RunFailedAtSolve

\* C4 witness: a valid configuration and more aircraft than crew x horizon:
\* the solver reported no solution and the run failed.
C4_Witness ==
    /\ RunFailedAtSolve
    /\ status = "INFEASIBLE"
    /\ cfg.dmin <= cfg.dmax /\ cfg.dmax <= cfg.horizon
    /\ Len(fleet_df) > cfg.crew * cfg.horizon

BadConfig == cfg.dmin > cfg.dmax \/ cfg.dmax > cfg.horizon

\* C5 as stated: under a configuration with min_duration > max_duration or
\* max_duration > horizon the run is rejected with ConfigError while the
\* model is built: it never gets past the build step, and the solver is never
\* called.  (The run that ends in the division by zero is left aside.)
C5_BadConfigRejected ==
    (BadConfig /\ error # "ZeroDivisionError") =>
        /\ pc \in {"loaded", "failed"}
        /\ pc = "failed" => error = "ConfigError"
        /\ ~SolverInvoked

StartsByWeight(st) ==
    \A a, b \in AircraftList : weights[a] > weights[b] => st[a] <= st[b]

ScenarioA == fleet_df = <<10, 500, 50>> /\ cfg.crew = 2

\* C6: in every optimal solution of the model an aircraft with a greater
\* weight starts no later than an aircraft with a smaller weight, and so does
\* the solution the solver returns as OPTIMAL; in Scenario A the aircraft
\* with hours_until_due = 10 starts no later than the other two.
C6_UrgentFirstInOptimum ==
    /\ pc = "built" => \A sol \in Optimal(Feasible) : StartsByWeight(sol.start)
    /\ (HasSolution /\ status = "OPTIMAL") =>
          /\ StartsByWeight(start_day)
          /\ ScenarioA => \A a \in AircraftList : start_day[1] <= start_day[a]

\* C6 witness: Scenario A solved to optimality, the least urgent aircraft
\* starting after the most urgent one.
C6_Witness ==
    /\ pc = "solved" /\ status = "OPTIMAL"
    /\ ScenarioA
    /\ start_day[1] < start_day[2]

WeightsComputed == pc \notin {"loaded"} /\ error # "ZeroDivisionError"

\* C7 as stated: every weight is max(1, round(100 (M - h) / M)), lies in
\* 1..100, and Scenario A's weights are 98, 1, 91.
C7_WeightIsRounded ==
    (WeightsComputed /\ max_hours >= 1) =>
        /\ \A a \in AircraftList :
              /\ weights[a] = Max(1, ScaledUrgencyRounded(fleet_df[a], max_hours))
              /\ weights[a] \in 1..100
        /\ fleet_df = <<10, 500, 50>> => weights = <<98, 1, 91>>

\* C7 amended: every weight w lies in 1..100 and is the scaled urgency
\* 100 (M - h) / M truncated, not rounded, and raised to at least 1: w = 1
\* when the scaled urgency is below 2, and otherwise w <= 100 (M - h) / M <
\* w + 1, except that w is one less than a scaled urgency of exactly 29, 57
\* or 58; Scenario A's weights are 98, 1, 90.
C7_WeightIsTruncated ==
    (WeightsComputed /\ max_hours >= 1) =>
        /\ \A a \in AircraftList :
              LET x == 100 * (max_hours - fleet_df[a])
                  w == weights[a]
              IN  /\ w \in 1..100
                  /\ w = 1 => x < 2 * max_hours
                  /\ w > 1 =>
                       /\ w * max_hours <= x
                       /\ \/ x < (w + 1) * max_hours
                          \/ x = (w + 1) * max_hours /\ w + 1 \in {29, 57, 58}
                  /\ x \in {29 * max_hours, 57 * max_hours, 58 * max_hours} =>
                       w * max_hours < x
        /\ fleet_df = <<10, 500, 50>> => weights = <<98, 1, 90>>

\* C7 witness: a fleet with a weight below the rounded scaled urgency (hours
\* 7 against a maximum of 21: 66, not 67).
C7_Witness ==
    /\ pc = "built"
    /\ max_hours = 21
    /\ \E a \in AircraftList : fleet_df[a] = 7 /\ weights[a] = 66

\* C8: of two aircraft of a fleet the one with fewer hours_until_due never
\* has the smaller weight.
C8_WeightMonotone ==
    WeightsComputed =>
        \A a, b \in AircraftList :
            fleet_df[a] < fleet_df[b] => weights[a] >= weights[b]

\* C8 witness: a fleet in which the more urgent of two aircraft has the
\* strictly greater weight.
C8_Witness ==
    /\ pc = "built"
    /\ \E a, b \in AircraftList :
          fleet_df[a] < fleet_df[b] /\ weights[a] > weights[b]

\* C9 as stated: the normaliser is the fleet's largest hours_until_due, and 1
\* for an empty fleet or a fleet of zeros, so it is never 0 and the weight
\* computation never divides by zero.
C9_NormaliserNeverZero ==
    pc # "loaded" =>
        /\ max_hours = (IF Len(fleet_df) = 0 \/ SeqMax(fleet_df) = 0
                        THEN 1 ELSE SeqMax(fleet_df))
        /\ max_hours # 0
        /\ error # "ZeroDivisionError"

Rank(p) ==
    CASE p = "loaded"     -> 0
      [] p = "built"      -> 1
      [] p = "solved"     -> 2
      [] p = "allocating" -> 3
      [] p = "emitted"    -> 4
      [] p = "saved"      -> 5

\* C10: the run goes from built to solved to allocation to emitted (and then
\* saved), one stage at a time and never back; the table is written only
\* from the emitted stage, with a row for every aircraft; a run can fail only
\* before the allocation starts, and a failed run has no rows, stops, and
\* leaves the stored maintenance_records as they were.
C10_LinearPipeline ==
    /\ [][/\ pc' # pc =>
               \/ pc # "failed" /\ pc' # "failed" /\ Rank(pc') = Rank(pc) + 1
               \/ pc \in {"loaded", "built"} /\ pc' = "failed"
          /\ maintenance_records' # maintenance_records =>
               /\ pc = "emitted" /\ pc' = "saved"
               /\ Len(schedule_rows) = Len(fleet_df)
               /\ maintenance_records' = schedule_rows
          /\ pc = "failed" => UNCHANGED vars]_vars
    /\ [](pc = "failed" =>
            schedule_rows = <<>> /\ maintenance_records = StoredBefore)
    /\ [](pc # "saved" => maintenance_records = StoredBefore)

\* C10 witness: a run over a fleet of three has saved its three rows, one of
\* them with a part.
C10_Witness ==
    /\ pc = "saved"
    /\ Len(fleet_df) = 3
    /\ maintenance_records = schedule_rows
    /\ Len(maintenance_records) = 3
    /\ \E k \in 1..3 : ~Unresourced(maintenance_records[k])

\* C11 as stated: in every generated record hours_since_last_maintenance is
\* flight_hours mod maint_interval_hours, hours_until_due is the interval
\* less that, and hours_until_due lies in [0, maint_interval_hours).
C11_HoursUntilDueBelowInterval ==
    \A k \in 1..Len(generated_fleet) :
        LET r == generated_fleet[k]
        IN  /\ r.hours_since_last_maintenance
                  = r.flight_hours % r.maint_interval_hours
            /\ r.hours_until_due
                  = r.maint_interval_hours - r.hours_since_last_maintenance
            /\ 0 <= r.hours_until_due
            /\ r.hours_until_due < r.maint_interval_hours

\* C11 amended: in every generated record hours_since_last_maintenance is the
\* remainder of flight_hours by the interval (it lies in [0, interval) and
\* flight_hours less it is a multiple of the interval), hours_until_due and
\* hours_since_last_maintenance add up to the interval, and hours_until_due
\* lies in (0, interval]: it is never 0, and it is the whole interval exactly
\* when flight_hours is a multiple of the interval.
C11_HoursUntilDueUpToInterval ==
    \A k \in 1..Len(generated_fleet) :
        LET r == generated_fleet[k]
            m == r.maint_interval_hours
        IN  /\ r.hours_since_last_maintenance \in 0..(m - 1)
            /\ \E q \in 0..r.flight_hours :
                  r.flight_hours = q * m + r.hours_since_last_maintenance
            /\ r.hours_until_due + r.hours_since_last_maintenance = m
            /\ r.hours_until_due \in 1..m
            /\ r.hours_until_due = m <=>
                  (\E q \in 0..r.flight_hours : r.flight_hours = q * m)

\* C11 witness: a generated fleet with an aircraft whose flight hours are a
\* positive multiple of an interval of more than one hour, so that its
\* hours_until_due is the whole interval, and one whose are not.
C11_Witness ==
    /\ pc = "generated"
    /\ \E k \in 1..Len(generated_fleet) :
          /\ generated_fleet[k].flight_hours > 0
          /\ generated_fleet[k].maint_interval_hours > 1
          /\ generated_fleet[k].hours_until_due
                = generated_fleet[k].maint_interval_hours
    /\ \E k \in 1..Len(generated_fleet) :
          generated_fleet[k].hours_until_due
                < generated_fleet[k].maint_interval_hours

\* C12 as stated: all tasks of a run are dated from one anchor date, so for
\* every task schedule_end - schedule_start is the solved duration, and two
\* tasks' schedule_start values differ by exactly the difference of their
\* start_day values, even if midnight passes between the clock reads.
C12_SingleAnchorDate ==
    (pc \in {"allocating", "emitted", "saved"}) =>
        /\ \A k \in 1..Len(schedule_rows) :
              LET r == schedule_rows[k]
              IN  r.schedule_end - r.schedule_start = duration[r.aircraft_id]
        /\ \A k \in 1..Len(schedule_rows), l \in 1..Len(schedule_rows) :
              LET r == schedule_rows[k]
                  q == schedule_rows[l]
              IN  r.schedule_start - q.schedule_start
                      = start_day[r.aircraft_id] - start_day[q.aircraft_id]

\* The emitted tasks whose start day and duration cover day d.
EmittedOn(d) ==
    {k \in 1..Len(schedule_rows) : Covers(schedule_rows[k].aircraft_id, d)}

\* The days after the horizon that a task can reach.
DaysBeyond == cfg.horizon..(cfg.horizon + cfg.dmax)

\* C13: on every day at or after horizon_days, for which the model has no
\* day flag, as on every day inside the horizon, at most crew_capacity of the
\* emitted tasks have start_day <= d < start_day + duration; every task that
\* covers a day after the horizon covers the last day of the horizon too.
C13_CapacityBeyondHorizon ==
    HasSolution =>
        /\ \A d \in Days \cup DaysBeyond :
              /\ Cardinality(EmittedOn(d)) <= cfg.crew
              /\ Cardinality(InMaintenance(d)) <= cfg.crew
        /\ \A d \in DaysBeyond :
              InMaintenance(d) \subseteq InMaintenance(cfg.horizon - 1)

\* C13 witness: a returned schedule of more aircraft than the crew can take
\* on one day, in which a task runs past the horizon and the emitted tasks
\* use up the capacity on a day after the horizon.
C13_Witness ==
    /\ pc = "emitted"
    /\ Len(fleet_df) > cfg.crew
    /\ \E a \in AircraftList : start_day[a] + duration[a] > cfg.horizon
    /\ \E d \in DaysBeyond : Cardinality(EmittedOn(d)) = cfg.crew
=============================================================================
